---- MODULE Spec2Model ----
(***************************************************************************)
(* Model of the dividr noise-reduction tool chain:                         *)
(*   src/src/backend/python/scripts/noisereduction.py  (log_progress,      *)
(*       denoise_with_fft, run, main)                                      *)
(*   src/src/backend/python/main.py                    (dividr-tools main) *)
(*                                                                         *)
(* One behaviour is one invocation: either run() called directly by a host *)
(* (optionally with a progress callback), or noisereduction.main, or the   *)
(* dividr-tools main.  The decoded audio file, the keyword options and the *)
(* command line are the inputs, drawn in Init.                             *)
(*                                                                         *)
(* Numbers.  Sample values, alpha, beta and the gain are exact rationals   *)
(* [num, den].  Spectral magnitudes are integers counted in units of the   *)
(* 1e-10 floor of the code (Eps), so max(x, 1e-10) is Max(x, Eps).  The    *)
(* FFT itself is not computed: a spectrum is followed on the bins of Bins,  *)
(* one bin for every pair (raw noise magnitude, frame magnitude), both any *)
(* value >= 0 that np.abs can return.                                      *)
(***************************************************************************)
EXTENDS Integers, Sequences, FiniteSets, TLC

\* ------------------------------------------------------------------ bounds
MaxChannels == 2        \* channel counts 1..MaxChannels of the decoded file
MaxMagnitude == 5       \* frame magnitudes 0..MaxMagnitude (units of Eps)
MaxNoise == 2           \* raw noise magnitudes 0..MaxNoise (units of Eps)
MaxFileLines == 3       \* lines of the installed df/io.py, 0..MaxFileLines
MaxPatcherRuns == 2     \* times the patcher is run in a row

\* ------------------------------------------------------- program constants
MinSamples == 100       \* noisereduction.py:289
MinFft == 64            \* noisereduction.py:298 and :92
DefaultNFft == 2048     \* noisereduction.py:261
Eps == 1                \* 1e-10 of noisereduction.py:134/167, the unit of magnitudes

\* Python's None where the code holds an Optional[int] (hop_length, and the
\* exit status of a process that has not exited); no int of the model is negative
None == -1
NoExc == [type |-> "none", msg |-> "none"]

\* ---------------------------------------------------------------- rationals
Rat(n, d) == [num |-> n, den |-> d]
RLe(a, b) == a.num * b.den <= b.num * a.den
REq(a, b) == a.num * b.den = b.num * a.den
RMax(a, b) == IF RLe(a, b) THEN b ELSE a
RMul(a, b) == Rat(a.num * b.num, a.den * b.den)
RSub(a, b) == Rat(a.num * b.den - b.num * a.den, a.den * b.den)
ROne == Rat(1, 1)
RZero == Rat(0, 1)

Max(a, b) == IF a >= b THEN a ELSE b
Min(a, b) == IF a <= b THEN a ELSE b

RECURSIVE Gcd(_, _)
Gcd(a, b) == IF b = 0 THEN a ELSE Gcd(b, a % b)
Abs(x) == IF x < 0 THEN -x ELSE x
\* a rational in lowest terms, so that equal values are equal records
Norm(r) ==
    LET g == Gcd(Abs(r.num), r.den)
    IN  IF g = 0 THEN r ELSE Rat(r.num \div g, r.den \div g)

RECURSIVE SumSeq(_)
SumSeq(s) == IF s = <<>> THEN 0 ELSE Head(s) + SumSeq(Tail(s))

\* ------------------------------------------------------------ input domains
\* decoded length of the file, in frames
Lengths == {0, 4, 99, 100, 500, 600}
\* the rate field of the decoded header; run() takes what sf.read returns and
\* checks nothing about it
SampleRates == {0, 5, 960, 44100}
\* the two frames the decoded data repeats; channel c of a frame
PatternSquare(C) == << [c \in 1..C |-> 1], [c \in 1..C |-> -1] >>
PatternSkew(C) == << [c \in 1..C |-> c], [c \in 1..C |-> 1 - 2 * c] >>
Patterns(C) == {PatternSquare(C), PatternSkew(C)}

\* --n-fft / n_fft is any int: the default, sizes around the signal lengths,
\* and a size below 4
NFftChoices == {DefaultNFft, 256, MinFft, 2}
HopChoices == {None, 32}
\* noise_sample_duration in tenths of a second (default 0.1 s = 1)
NoiseDurationTenths == {0, 1}
\* (alpha, beta) pairs: the defaults 2.0 / 0.01, no subtraction, full floor
GainChoices == { [alpha |-> Rat(2, 1), beta |-> Rat(1, 100)],
                 [alpha |-> Rat(0, 1), beta |-> Rat(1, 100)],
                 [alpha |-> Rat(1, 2), beta |-> Rat(1, 2)],
                 [alpha |-> Rat(3, 1), beta |-> Rat(1, 1)] }
Magnitudes == 0..MaxMagnitude
NoiseMagnitudes == 0..MaxNoise
\* the frequency bins followed: bin <<r, m>> has raw noise magnitude r and
\* frame magnitude m
Bins == NoiseMagnitudes \X Magnitudes

Entries == {"run", "nr_main", "tools_main"}
Commands == {"none", "transcribe", "noise-reduce"}
\* what input_path is: absent, a directory, a readable .wav file, a readable file
\* of another suffix, or a file the decoder cannot read
PathStates == {"missing", "dir", "wav", "other", "corrupt"}
Readable == {"wav", "other"}
\* a command line argparse rejects
BadArgv == [rejected |-> TRUE]
IsBadArgv(a) == "rejected" \in DOMAIN a

VARIABLES
    entry,          \* who starts the run: a host calling run(), or one of the mains
    argv,           \* the command line / the keyword arguments given by the host
    path,           \* what input_path resolves to
    file,           \* the decoded content of the input file (what sf.read returns)
    pc,             \* position in the code
    kwargs,         \* run(): the **kwargs it was called with
    nrk,            \* run(): noise_reduction_kwargs, the options after kwargs.get
    audio,          \* run(): the audio array
    sample_rate,    \* run(): the rate sf.read returned
    n_fft,          \* run(): its local n_fft
    dn,             \* denoise_with_fft(): its locals
    reduced_noise,  \* run(): what denoise_with_fft returned
    exc,            \* the exception in flight
    events,         \* what on_progress was called with, in order
    lines,          \* every line printed, in order, with its stream
    out_file,       \* the output file as sf.write left it
    exit_code,      \* the process exit code of a main
    patcher         \* patch_deepfilternet_io.py: the installed files and main()'s locals

vars == << entry, argv, path, file, pc, kwargs, nrk, audio, sample_rate, n_fft, dn,
           reduced_noise, exc, events, lines, out_file, exit_code, patcher >>

NoAudio == [shape |-> <<>>, data |-> <<>>]
NoFile == [written |-> FALSE, frames |-> 0, samplerate |-> 0]
\* run()'s options before they are read
NoOptions == [n_fft |-> 0, hop_length |-> None, noise_sample_duration |-> 0,
              alpha |-> RZero, beta |-> RZero]
\* the locals of denoise_with_fft before it is called
NoSlice == [start |-> 0, stop |-> 0]
NoDn == [n_fft |-> 0, hop_length |-> None, noise_sample_length |-> 0,
         noise_reference |-> NoSlice,
         num_noise_windows |-> 0, fallback |-> FALSE,
         noise_spectrum_magnitude |-> << >>,
         num_frames |-> 0, num_freq_bins |-> 0, frame_idx |-> 0,
         start_sample |-> 0, end_sample |-> 0, padded |-> FALSE,
         frame_magnitude |-> << >>, gain |-> << >>, denoised_magnitude |-> << >>,
         buffer_len |-> 0, window_sum_len |-> 0, fill |-> << >>, ola |-> << >>,
         flattened |-> FALSE]

\* ------------------------------------------------------------ numpy arrays
\* An array is its shape and its data; the data of the decoded file repeat a
\* short period, so an array stores one period: element i is At(a, i).
ArrLen(a) == IF a.shape = <<>> THEN 0 ELSE a.shape[1]
NDim(a) == Len(a.shape)
At(a, i) == a.data[((i - 1) % Len(a.data)) + 1]

RAdd(a, b) == Rat(a.num * b.den + b.num * a.den, a.den * b.den)
RECURSIVE RSum(_)
RSum(row) == IF row = <<>> THEN RZero ELSE RAdd(Head(row), RSum(Tail(row)))

\* sf.read: a one-channel file decodes to a 1-D array, a C-channel file to (N, C)
Decode(f) ==
    IF f.channels = 1
    THEN [shape |-> << f.frames >>,
          data |-> [j \in 1..Len(f.period) |-> Rat(f.period[j][1], 1)]]
    ELSE [shape |-> << f.frames, f.channels >>,
          data |-> [j \in 1..Len(f.period) |->
                      [c \in 1..f.channels |-> Rat(f.period[j][c], 1)]]]

\* the first channel taken for the mean
RowFirst(row) == Norm(row[1])
\* audio.mean(axis=1): one sample per frame, the arithmetic mean of its channels
RowMean(row) == Norm(Rat(RSum(row).num, RSum(row).den * Len(row)))
MeanAxis1(a) ==
    [shape |-> << a.shape[1] >>,
     data |-> [j \in 1..Len(a.data) |-> RowMean(a.data[j])]]

\* audio.flatten(): the rows one after the other (channel-interleaved)
RECURSIVE Concat(_)
Concat(rows) == IF rows = <<>> THEN <<>> ELSE Head(rows) \o Concat(Tail(rows))
Flatten(a) ==
    [shape |-> << a.shape[1] * a.shape[2] >>,
     data |-> Concat(a.data)]

\* ------------------------------------------------------------ integer helpers
RECURSIVE Log2Floor(_)
\* int(np.log2(n)) for n >= 1
Log2Floor(n) == IF n < 2 THEN 0 ELSE 1 + Log2Floor(n \div 2)
RECURSIVE Pow2(_)
Pow2(k) == IF k = 0 THEN 1 ELSE 2 * Pow2(k - 1)
\* len(range(0, stop, step)) for step > 0
RangeLen(stop, step) == IF stop <= 0 THEN 0 ELSE (stop + step - 1) \div step

\* a[:n] of an array of length len: the bounds of the slice Python takes
SliceTo(len, n) ==
    [start |-> 0, stop |-> IF n >= 0 THEN Min(n, len) ELSE Max(len + n, 0)]

\* kwargs.get(key, default)
KwGet(kw, key, default) == IF key \in DOMAIN kw THEN kw[key] ELSE default

\* the patcher when it is not the program that runs
NoPatcher == [pc |-> "idle"]

\* ---------------------------------------------------------------- the inputs
Files ==
    UNION { { [frames |-> n, channels |-> c, period |-> p, samplerate |-> r] :
                n \in Lengths, p \in Patterns(c), r \in SampleRates } :
            c \in 1..MaxChannels }
NoContent == [frames |-> 0, channels |-> 0, period |-> << >>, samplerate |-> 0]

\* keyword arguments a host may pass to run(): none, or all the consumed ones
DefaultGain == [alpha |-> Rat(2, 1), beta |-> Rat(1, 100)]
\* keyword arguments a host may pass to run(): none, the framing options, or
\* the gain options
HostKwargs ==
    { << >> } \cup
    { [n_fft |-> n, hop_length |-> h, noise_sample_duration |-> d] :
        n \in NFftChoices, h \in HopChoices, d \in NoiseDurationTenths } \cup
    { [alpha |-> g.alpha, beta |-> g.beta] : g \in GainChoices \ {DefaultGain} }

\* what argparse leaves in args for noisereduction.main (hop_length is no
\* option): the framing options varied with the default gain, and the gain
\* varied with the default framing
NrMainArgs ==
    { [n_fft |-> n, noise_sample_duration |-> d, alpha |-> g.alpha, beta |-> g.beta] :
        n \in NFftChoices, d \in NoiseDurationTenths, g \in {DefaultGain} } \cup
    { [n_fft |-> DefaultNFft, noise_sample_duration |-> 1,
       alpha |-> g.alpha, beta |-> g.beta] : g \in GainChoices }

\* what argparse leaves in args for dividr-tools
ToolsArgs == { [command |-> c, n_fft |-> n] : c \in Commands, n \in NFftChoices }

Init ==
    /\ entry \in Entries
    /\ argv \in CASE entry = "run" ->
                    { [kw |-> k, on_progress |-> cb] : k \in HostKwargs, cb \in BOOLEAN }
                 [] entry = "nr_main" -> NrMainArgs \cup {BadArgv}
                 [] entry = "tools_main" -> ToolsArgs \cup {BadArgv}
    /\ path \in PathStates
    /\ file \in IF path \in Readable THEN Files ELSE {NoContent}
    /\ pc = "begin"
    /\ kwargs = << >>
    /\ nrk = NoOptions
    /\ audio = NoAudio
    /\ sample_rate = 0
    /\ n_fft = 0
    /\ dn = NoDn
    /\ reduced_noise = NoAudio
    /\ exc = NoExc
    /\ events = << >>
    /\ lines = << >>
    /\ out_file = NoFile
    /\ exit_code = None
    /\ patcher = NoPatcher

\* ------------------------------------------------------------------ printing
Line(stream, tag, stage, progress, msg) ==
    [stream |-> stream, tag |-> tag, stage |-> stage, progress |-> progress, msg |-> msg]

\* the clamp with min and max exchanged
LogProgressLineSwapped(stage, progress) ==
    Line("stdout", "PROGRESS", stage, Max(100, Min(0, progress)), "")
\* log_progress: one PROGRESS| line on stdout, the progress clamped to 0..100
LogProgressLine(stage, progress) ==
    Line("stdout", "PROGRESS", stage, Min(100, Max(0, progress)), "")

ErrorLine(msg) == Line("stderr", "ERROR", "", 0, msg)

\* the callback run() was given, if any
HasCallback == entry = "run" /\ argv.on_progress

\* run.report_progress: log_progress always, then the callback when there is one;
\* the callback is the host's code and may raise, which lands in run()'s handler
ReportProgress(stage, progress, next) ==
    /\ lines' = Append(lines, LogProgressLine(stage, progress))
    /\ IF HasCallback
       THEN \/ /\ events' = Append(events, [stage |-> stage, progress |-> progress])
               /\ pc' = next
               /\ exc' = exc
            \/ /\ events' = events
               /\ pc' = "except"
               /\ exc' = [type |-> "Exception", msg |-> "callback"]
       ELSE /\ events' = events
            /\ pc' = next
            /\ exc' = exc

\* an exception raised inside run()'s try block: except NoiseReductionError
\* re-raises it untouched, except Exception goes to the handler
Raise(type, msg) ==
    /\ pc' = IF type = "NoiseReductionError" THEN "raised" ELSE "except"
    /\ exc' = [type |-> type, msg |-> msg]

\* ------------------------------------------------------------- entry points
\* a host process calls run(input_path, output_path, on_progress, **kwargs)
HostCallsRun ==
    /\ pc = "begin" /\ entry = "run"
    /\ kwargs' = argv.kw
    /\ pc' = "run_start"
    /\ UNCHANGED << entry, argv, path, file, nrk, audio, sample_rate, n_fft, dn,
                    reduced_noise, exc, events, lines, out_file, exit_code >>
    /\ UNCHANGED patcher

\* argparse rejects the command line: usage on stderr, exit status 2
ArgparseError ==
    /\ pc = "begin" /\ entry \in {"nr_main", "tools_main"} /\ IsBadArgv(argv)
    /\ lines' = Append(lines, Line("stderr", "USAGE", "", 0, ""))
    /\ exit_code' = 2
    /\ pc' = "exited"
    /\ UNCHANGED << entry, argv, path, file, kwargs, nrk, audio, sample_rate, n_fft, dn,
                    reduced_noise, exc, events >>
    /\ UNCHANGED out_file
    /\ UNCHANGED patcher

\* noisereduction.main: parse, then run(..) with the parsed options
NrMainCallsRun ==
    /\ pc = "begin" /\ entry = "nr_main" /\ ~IsBadArgv(argv)
    /\ kwargs' = [n_fft |-> argv.n_fft,
                  noise_sample_duration |-> argv.noise_sample_duration,
                  alpha |-> argv.alpha, beta |-> argv.beta]
    /\ pc' = "run_start"
    /\ UNCHANGED << entry, argv, path, file, nrk, audio, sample_rate, n_fft, dn,
                    reduced_noise, exc, events, lines, out_file, exit_code >>
    /\ UNCHANGED patcher

\* noisereduction.main: run() returned, main falls off its end
NrMainReturns ==
    /\ pc = "returned" /\ entry = "nr_main"
    /\ exit_code' = 0
    /\ pc' = "exited"
    /\ UNCHANGED << entry, argv, path, file, kwargs, nrk, audio, sample_rate, n_fft, dn,
                    reduced_noise, exc, events, lines, out_file >>
    /\ UNCHANGED patcher

\* noisereduction.main: each except clause prints ERROR|str(e) and exits 1
NrMainExcept ==
    /\ pc = "raised" /\ entry = "nr_main"
    /\ lines' = Append(lines, ErrorLine(exc.msg))
    /\ exit_code' = 1
    /\ pc' = "exited"
    /\ UNCHANGED << entry, argv, path, file, kwargs, nrk, audio, sample_rate, n_fft, dn,
                    reduced_noise, exc, events, out_file >>
    /\ UNCHANGED patcher

\* dividr-tools: no subcommand given: print_help and exit 1
ToolsNoCommand ==
    /\ pc = "begin" /\ entry = "tools_main" /\ ~IsBadArgv(argv)
    /\ argv.command = "none"
    /\ lines' = Append(lines, Line("stdout", "HELP", "", 0, ""))
    /\ exit_code' = 1
    /\ pc' = "exited"
    /\ UNCHANGED << entry, argv, path, file, kwargs, nrk, audio, sample_rate, n_fft, dn,
                    reduced_noise, exc, events, out_file >>
    /\ UNCHANGED patcher

\* dividr-tools transcribe: the transcriber prints RESULT| (--output -) or saves
\* and prints RESULT_SAVED| (transcribe.run), or raises
ToolsTranscribe ==
    /\ pc = "begin" /\ entry = "tools_main" /\ ~IsBadArgv(argv)
    /\ argv.command = "transcribe"
    /\ \/ /\ \E tag \in {"RESULT", "RESULT_SAVED"} :
                lines' = Append(lines, Line("stdout", tag, "", 0, "transcript"))
          /\ pc' = "returned"
          /\ exc' = exc
       \/ /\ lines' = lines
          /\ pc' = "raised"
          /\ exc' = [type |-> "TranscriptionError", msg |-> "transcription"]
    /\ UNCHANGED << entry, argv, path, file, kwargs, nrk, audio, sample_rate, n_fft, dn,
                    reduced_noise, events, out_file, exit_code >>
    /\ UNCHANGED patcher

\* dividr-tools noise-reduce: noisereduction.run(args.input, args.output)
ToolsCallsRun ==
    /\ pc = "begin" /\ entry = "tools_main" /\ ~IsBadArgv(argv)
    /\ argv.command = "noise-reduce"
    /\ kwargs' = << >>
    /\ pc' = "run_start"
    /\ UNCHANGED << entry, argv, path, file, nrk, audio, sample_rate, n_fft, dn,
                    reduced_noise, exc, events, lines, out_file, exit_code >>
    /\ UNCHANGED patcher

\* dividr-tools: the handler returned, main falls off its end
ToolsReturns ==
    /\ pc = "returned" /\ entry = "tools_main"
    /\ exit_code' = 0
    /\ pc' = "exited"
    /\ UNCHANGED << entry, argv, path, file, kwargs, nrk, audio, sample_rate, n_fft, dn,
                    reduced_noise, exc, events, lines, out_file >>
    /\ UNCHANGED patcher

\* the handler that prints the error and forgets the exit status
ToolsExceptExitZero ==
    /\ pc = "raised" /\ entry = "tools_main"
    /\ lines' = Append(lines, ErrorLine(exc.msg))
    /\ exit_code' = 0
    /\ pc' = "exited"
    /\ UNCHANGED << entry, argv, path, file, kwargs, nrk, audio, sample_rate, n_fft, dn,
                    reduced_noise, exc, events, out_file >>
    /\ UNCHANGED patcher

\* dividr-tools: except Exception prints ERROR|str(e) and exits 1
ToolsExcept ==
    /\ pc = "raised" /\ entry = "tools_main"
    /\ lines' = Append(lines, ErrorLine(exc.msg))
    /\ exit_code' = 1
    /\ pc' = "exited"
    /\ UNCHANGED << entry, argv, path, file, kwargs, nrk, audio, sample_rate, n_fft, dn,
                    reduced_noise, exc, events, out_file >>
    /\ UNCHANGED patcher

\* --------------------------------------------------------------------- run()
\* lines 244-274: the path checks (outside the try block), the suffix warning
\* and the option defaults
RunValidatePath ==
    /\ pc = "run_start"
    /\ IF path = "missing"
       THEN /\ exc' = [type |-> "FileNotFoundError", msg |-> "not-found"]
            /\ pc' = "raised"
            /\ UNCHANGED << lines, nrk, n_fft >>
       ELSE IF path = "dir"
       THEN /\ exc' = [type |-> "FileNotFoundError", msg |-> "not-a-file"]
            /\ pc' = "raised"
            /\ UNCHANGED << lines, nrk, n_fft >>
       ELSE /\ lines' = IF path = "other"
                        THEN Append(lines, Line("stderr", "WARNING", "", 0, "not-wav"))
                        ELSE lines
            /\ nrk' = [n_fft |-> KwGet(kwargs, "n_fft", DefaultNFft),
                       hop_length |-> KwGet(kwargs, "hop_length", None),
                       noise_sample_duration |-> KwGet(kwargs, "noise_sample_duration", 1),
                       alpha |-> KwGet(kwargs, "alpha", Rat(2, 1)),
                       beta |-> KwGet(kwargs, "beta", Rat(1, 100))]
            /\ n_fft' = KwGet(kwargs, "n_fft", DefaultNFft)
            /\ pc' = "rp_loading_0"
            /\ exc' = exc
    /\ UNCHANGED << entry, argv, path, file, kwargs, audio, sample_rate, dn,
                    reduced_noise, events, out_file, exit_code >>
    /\ UNCHANGED patcher

\* line 278
RpLoading0 ==
    /\ pc = "rp_loading_0"
    /\ ReportProgress("loading", 0, "sf_read")
    /\ UNCHANGED << entry, argv, path, file, kwargs, nrk, audio, sample_rate, n_fft, dn,
                    reduced_noise, out_file, exit_code >>
    /\ UNCHANGED patcher

\* line 279: audio, sample_rate = sf.read(..)
SfRead ==
    /\ pc = "sf_read"
    /\ IF path = "corrupt"
       THEN /\ Raise("Exception", "decode")
            /\ UNCHANGED << audio, sample_rate >>
       ELSE /\ audio' = Decode(file)
            /\ sample_rate' = file.samplerate
            /\ pc' = "stereo"
            /\ exc' = exc
    /\ UNCHANGED << entry, argv, path, file, kwargs, nrk, n_fft, dn,
                    reduced_noise, events, lines, out_file, exit_code >>
    /\ UNCHANGED patcher

\* a test that takes every file for a one-channel file
NeverMultiChannel(a) == FALSE
\* line 282
IsMultiChannel(a) == NDim(a) > 1 /\ a.shape[2] > 1

\* line 283
RpLoading10 ==
    /\ pc = "stereo" /\ IsMultiChannel(audio)
    /\ ReportProgress("loading", 10, "to_mono")
    /\ UNCHANGED << entry, argv, path, file, kwargs, nrk, audio, sample_rate, n_fft, dn,
                    reduced_noise, out_file, exit_code >>
    /\ UNCHANGED patcher

\* line 284: audio = audio.mean(axis=1)
ToMono ==
    /\ pc = "to_mono"
    /\ audio' = MeanAxis1(audio)
    /\ pc' = "rp_loading_20"
    /\ UNCHANGED << entry, argv, path, file, kwargs, nrk, sample_rate, n_fft, dn,
                    reduced_noise, exc, events, lines, out_file, exit_code >>
    /\ UNCHANGED patcher

\* line 286 (reached directly when the audio has one channel)
RpLoading20 ==
    /\ \/ pc = "rp_loading_20"
       \/ pc = "stereo" /\ ~IsMultiChannel(audio)
    /\ ReportProgress("loading", 20, "validate")
    /\ UNCHANGED << entry, argv, path, file, kwargs, nrk, audio, sample_rate, n_fft, dn,
                    reduced_noise, out_file, exit_code >>
    /\ UNCHANGED patcher

\* lines 289-290: if len(audio) < 100: raise NoiseReductionError
TooShort(a) == ArrLen(a) < MinSamples

ValidateLength ==
    /\ pc = "validate"
    /\ IF TooShort(audio)
       THEN Raise("NoiseReductionError", "too-short")
       ELSE pc' = "adapt" /\ exc' = exc
    /\ UNCHANGED << entry, argv, path, file, kwargs, nrk, audio, sample_rate, n_fft, dn,
                    reduced_noise, events, lines, out_file, exit_code >>
    /\ UNCHANGED patcher

\* the power of two above the length instead of the one below
AdaptedFftAbove(length) == Max(MinFft, Pow2(Log2Floor(length) + 1))
\* lines 297-298: the largest power of two not above the length, at least 64
AdaptedFft(length) == Max(MinFft, Pow2(Log2Floor(length)))

\* lines 294-295
RpLoading25 ==
    /\ pc = "adapt" /\ n_fft > ArrLen(audio)
    /\ ReportProgress("loading", 25, "shrink")
    /\ UNCHANGED << entry, argv, path, file, kwargs, nrk, audio, sample_rate, n_fft, dn,
                    reduced_noise, out_file, exit_code >>
    /\ UNCHANGED patcher

\* lines 297-298
ShrinkFft ==
    /\ pc = "shrink"
    /\ n_fft' = AdaptedFft(ArrLen(audio))
    /\ pc' = "rp_loading_30"
    /\ UNCHANGED << entry, argv, path, file, kwargs, nrk, audio, sample_rate, dn,
                    reduced_noise, exc, events, lines, out_file, exit_code >>
    /\ UNCHANGED patcher

\* line 300 (reached directly when n_fft fits the audio)
RpLoading30 ==
    /\ \/ pc = "rp_loading_30"
       \/ pc = "adapt" /\ ~(n_fft > ArrLen(audio))
    /\ ReportProgress("loading", 30, "rp_processing_30")
    /\ UNCHANGED << entry, argv, path, file, kwargs, nrk, audio, sample_rate, n_fft, dn,
                    reduced_noise, out_file, exit_code >>
    /\ UNCHANGED patcher

\* line 303
RpProcessing30 ==
    /\ pc = "rp_processing_30"
    /\ ReportProgress("processing", 30, "rp_processing_40")
    /\ UNCHANGED << entry, argv, path, file, kwargs, nrk, audio, sample_rate, n_fft, dn,
                    reduced_noise, out_file, exit_code >>
    /\ UNCHANGED patcher

\* line 304
RpProcessing40 ==
    /\ pc = "rp_processing_40"
    /\ ReportProgress("processing", 40, "denoise")
    /\ UNCHANGED << entry, argv, path, file, kwargs, nrk, audio, sample_rate, n_fft, dn,
                    reduced_noise, out_file, exit_code >>
    /\ UNCHANGED patcher

\* ------------------------------------------------------- denoise_with_fft()
\* the noise reference length without its cap
NoiseSampleLengthUncapped(tenths, rate, length) == (tenths * rate) \div 10
\* lines 86-87: int(noise_sample_duration * sample_rate), at most a quarter of
\* the audio; the duration is counted in tenths of a second
NoiseSampleLength(tenths, rate, length) ==
    Min((tenths * rate) \div 10, length \div 4)

\* lines 91-92: 2 ** int(np.log2(noise_sample_length)), at least 64
NoiseShrunkFft(nsl) == Max(MinFft, Pow2(Log2Floor(nsl)))

\* line 99
DefaultHop(fft) == fft \div 4

\* a window count that adds to what earlier calls left behind
NumNoiseWindowsCarried(ref_len, fft, hop) == RangeLen(ref_len - fft, hop) + Len(events)
\* line 106: the number of windows range(0, len(noise_reference) - n_fft, hop) visits
NumNoiseWindows(ref_len, fft, hop) == RangeLen(ref_len - fft, hop)

\* line 138
NumFrames(length, fft, hop) == (length - fft) \div hop + 1

\* the subtraction with alpha taken as 1 whatever the caller asked for
SpectralGainUnitAlpha(alpha, beta, noise, magnitude) ==
    RMax(beta, RSub(ROne, Rat(noise, Max(magnitude, Eps))))
\* the subtraction without its spectral floor
SpectralGainNoFloor(alpha, beta, noise, magnitude) ==
    RSub(ROne, RMul(alpha, Rat(noise, Max(magnitude, Eps))))
\* lines 167-168: gain = max(beta, 1 - alpha * noise / max(magnitude, 1e-10))
SpectralGain(alpha, beta, noise, magnitude) ==
    RMax(beta, RSub(ROne, RMul(alpha, Rat(noise, Max(magnitude, Eps)))))

\* a buffer sized by the frames instead of by the input
OutputBufferLenOfFrames(length, fft, hop, frames) == (frames - 1) * hop + fft
\* line 175: denoised_audio = np.zeros(len(audio))
OutputBufferLen(length, fft, hop, frames) == length

\* lines 78-99: the empty input, the flattening, the noise reference length,
\* the shrink of n_fft, the noise reference and the default hop.  np.log2(0) is -inf and int(-inf)
\* raises OverflowError.
DnEnter ==
    /\ pc = "denoise"
    /\ LET a == IF NDim(audio) > 1 THEN Flatten(audio) ELSE audio
           len == ArrLen(a)
           nsl == NoiseSampleLength(nrk.noise_sample_duration, sample_rate, len)
           shrink == nsl < n_fft
           fft == IF shrink /\ nsl > 0 THEN NoiseShrunkFft(nsl) ELSE n_fft
           hop == IF nrk.hop_length = None THEN DefaultHop(fft) ELSE nrk.hop_length
       IN  IF ArrLen(audio) = 0
           THEN /\ reduced_noise' = audio
                /\ pc' = "rp_processing_80"
                /\ UNCHANGED << audio, dn, exc >>
           ELSE IF shrink /\ nsl <= 0
           THEN /\ Raise("Exception", "OverflowError")
                /\ audio' = a
                /\ dn' = [NoDn EXCEPT !.noise_sample_length = nsl,
                                      !.n_fft = n_fft,
                                      !.flattened = NDim(audio) > 1]
                /\ UNCHANGED reduced_noise
           ELSE /\ audio' = a
                /\ dn' = [NoDn EXCEPT !.noise_sample_length = nsl,
                                      !.noise_reference = SliceTo(len, nsl),
                                      !.n_fft = fft,
                                      !.hop_length = hop,
                                      !.flattened = NDim(audio) > 1]
                /\ pc' = "dn_noise"
                /\ UNCHANGED << reduced_noise, exc >>
    /\ UNCHANGED << entry, argv, path, file, kwargs, nrk, sample_rate, n_fft,
                    events, lines, out_file, exit_code >>
    /\ UNCHANGED patcher

\* lines 101-134: the noise profile: the average over the windows of the noise
\* reference, or the single padded window when there is none, floored at 1e-10.
\* range() with a zero step raises ValueError.
DnNoiseProfile ==
    /\ pc = "dn_noise"
    /\ IF dn.hop_length = 0
       THEN /\ Raise("Exception", "ValueError")
            /\ UNCHANGED dn
       ELSE LET w == NumNoiseWindows(dn.noise_sample_length, dn.n_fft, dn.hop_length)
            IN  /\ dn' = [dn EXCEPT !.num_noise_windows = w,
                                    !.fallback = (w = 0),
                                    !.noise_spectrum_magnitude =
                                        [b \in Bins |-> Max(b[1], Eps)]]
                /\ pc' = "dn_alloc"
                /\ exc' = exc
    /\ UNCHANGED << entry, argv, path, file, kwargs, nrk, audio, sample_rate, n_fft,
                    reduced_noise, events, lines, out_file, exit_code >>
    /\ UNCHANGED patcher

\* lines 138-142: the frame count and the spectrum array; np.zeros with a
\* negative dimension raises ValueError
DnAllocate ==
    /\ pc = "dn_alloc"
    /\ LET f == NumFrames(ArrLen(audio), dn.n_fft, dn.hop_length)
       IN  IF f < 0
           THEN /\ Raise("Exception", "ValueError")
                /\ UNCHANGED dn
           ELSE /\ dn' = [dn EXCEPT !.num_frames = f,
                                    !.num_freq_bins = dn.n_fft \div 2 + 1,
                                    !.frame_idx = 0]
                /\ pc' = "dn_stft"
                /\ exc' = exc
    /\ UNCHANGED << entry, argv, path, file, kwargs, nrk, audio, sample_rate, n_fft,
                    reduced_noise, events, lines, out_file, exit_code >>
    /\ UNCHANGED patcher

\* lines 145-172: one frame of the analysis loop
DnStftFrame ==
    /\ pc = "dn_stft" /\ dn.frame_idx < dn.num_frames
    /\ LET start == dn.frame_idx * dn.hop_length
           end == start + dn.n_fft
           g == [b \in Bins |-> SpectralGain(nrk.alpha, nrk.beta,
                                             dn.noise_spectrum_magnitude[b], b[2])]
       IN  dn' = [dn EXCEPT !.start_sample = start,
                            !.end_sample = end,
                            !.padded = end > ArrLen(audio),
                            !.frame_magnitude = [b \in Bins |-> b[2]],
                            !.gain = g,
                            !.denoised_magnitude = [b \in Bins |-> RMul(Rat(b[2], 1), g[b])],
                            !.frame_idx = dn.frame_idx + 1]
    /\ UNCHANGED << entry, argv, path, file, pc, kwargs, nrk, audio, sample_rate, n_fft,
                    reduced_noise, exc, events, lines, out_file, exit_code >>
    /\ UNCHANGED patcher

\* lines 175-176: the loop is over; the two accumulators are allocated with
\* np.zeros: buffer_len is the length of denoised_audio, window_sum_len the
\* length of window_sum, fill the value both are filled with
DnStftDone ==
    /\ pc = "dn_stft" /\ dn.frame_idx = dn.num_frames
    /\ dn' = [dn EXCEPT !.frame_idx = 0,
                        !.buffer_len = OutputBufferLen(ArrLen(audio), dn.n_fft,
                                                       dn.hop_length, dn.num_frames),
                        !.window_sum_len = ArrLen(audio),
                        !.fill = << RZero, RZero >>,
                        !.ola = << >>]
    /\ pc' = "dn_ola"
    /\ UNCHANGED << entry, argv, path, file, kwargs, nrk, audio, sample_rate, n_fft,
                    reduced_noise, exc, events, lines, out_file, exit_code >>
    /\ UNCHANGED patcher

\* a loop that takes the frames from the last to the first
OlaFrameIndexDescending(k, frames) == frames - 1 - k
\* line 178: for frame_idx in range(num_frames): iteration k takes frame k
OlaFrameIndex(k, frames) == k

\* lines 178-193: one frame of the overlap-add loop; ola keeps, for each
\* iteration, the frame taken, the slice added to in each accumulator and what
\* window_sum receives (window[:frame_length], the window values themselves)
DnOlaFrame ==
    /\ pc = "dn_ola" /\ dn.frame_idx < dn.num_frames
    /\ LET f == OlaFrameIndex(dn.frame_idx, dn.num_frames)
           start == f * dn.hop_length
           end == Min(start + dn.n_fft, dn.buffer_len)
           span == [start |-> start, stop |-> end]
       IN  dn' = [dn EXCEPT !.start_sample = start,
                            !.end_sample = end,
                            !.frame_idx = dn.frame_idx + 1,
                            !.ola = Append(dn.ola,
                                        [frame |-> f,
                                         denoised_audio |-> span,
                                         window_sum |-> span,
                                         energy |-> "window"])]
    /\ UNCHANGED << entry, argv, path, file, pc, kwargs, nrk, audio, sample_rate, n_fft,
                    reduced_noise, exc, events, lines, out_file, exit_code >>
    /\ UNCHANGED patcher

\* lines 195-202: normalise, cut to the input length, return
DnReturn ==
    /\ pc = "dn_ola" /\ dn.frame_idx = dn.num_frames
    /\ reduced_noise' = [shape |-> << Min(dn.buffer_len, ArrLen(audio)) >>, data |-> << >>]
    /\ pc' = "rp_processing_80"
    /\ UNCHANGED << entry, argv, path, file, kwargs, nrk, audio, sample_rate, n_fft, dn,
                    exc, events, lines, out_file, exit_code >>
    /\ UNCHANGED patcher

\* ------------------------------------------------------- run(), after denoising
\* line 315
RpProcessing80 ==
    /\ pc = "rp_processing_80"
    /\ ReportProgress("processing", 80, "rp_saving_85")
    /\ UNCHANGED << entry, argv, path, file, kwargs, nrk, audio, sample_rate, n_fft, dn,
                    reduced_noise, out_file, exit_code >>
    /\ UNCHANGED patcher

\* line 318
RpSaving85 ==
    /\ pc = "rp_saving_85"
    /\ ReportProgress("saving", 85, "mkdir")
    /\ UNCHANGED << entry, argv, path, file, kwargs, nrk, audio, sample_rate, n_fft, dn,
                    reduced_noise, out_file, exit_code >>
    /\ UNCHANGED patcher

\* lines 319-320: the parent directory is created, or the file system refuses
Mkdir ==
    /\ pc = "mkdir"
    /\ \/ pc' = "rp_saving_90" /\ exc' = exc
       \/ Raise("Exception", "OSError")
    /\ UNCHANGED << entry, argv, path, file, kwargs, nrk, audio, sample_rate, n_fft, dn,
                    reduced_noise, events, lines, out_file, exit_code >>
    /\ UNCHANGED patcher

\* line 322
RpSaving90 ==
    /\ pc = "rp_saving_90"
    /\ ReportProgress("saving", 90, "sf_write")
    /\ UNCHANGED << entry, argv, path, file, kwargs, nrk, audio, sample_rate, n_fft, dn,
                    reduced_noise, out_file, exit_code >>
    /\ UNCHANGED patcher

\* line 323: sf.write(output_file, reduced_noise, sample_rate), or the write fails
SfWrite ==
    /\ pc = "sf_write"
    /\ \/ /\ out_file' = [written |-> TRUE, frames |-> ArrLen(reduced_noise),
                           samplerate |-> sample_rate]
          /\ pc' = "rp_complete_100"
          /\ exc' = exc
       \/ /\ Raise("Exception", "write")
          /\ out_file' = out_file
    /\ UNCHANGED << entry, argv, path, file, kwargs, nrk, audio, sample_rate, n_fft, dn,
                    reduced_noise, events, lines, exit_code >>
    /\ UNCHANGED patcher

\* line 326
RpComplete100 ==
    /\ pc = "rp_complete_100"
    /\ ReportProgress("complete", 100, "print_result")
    /\ UNCHANGED << entry, argv, path, file, kwargs, nrk, audio, sample_rate, n_fft, dn,
                    reduced_noise, out_file, exit_code >>
    /\ UNCHANGED patcher

\* line 327: print RESULT_SAVED|output_path, and run() returns
PrintResult ==
    /\ pc = "print_result"
    /\ lines' = Append(lines, Line("stdout", "RESULT_SAVED", "", 0, "output-path"))
    /\ pc' = "returned"
    /\ UNCHANGED << entry, argv, path, file, kwargs, nrk, audio, sample_rate, n_fft, dn,
                    reduced_noise, exc, events, out_file, exit_code >>
    /\ UNCHANGED patcher

\* the handler that also reports the result
ExceptHandlerWithResult ==
    /\ pc = "except"
    /\ lines' = lines \o << LogProgressLine("error", 0), ErrorLine("failed"),
                            Line("stdout", "RESULT_SAVED", "", 0, "output-path") >>
    /\ exc' = [type |-> "NoiseReductionError", msg |-> "failed"]
    /\ pc' = "raised"
    /\ UNCHANGED << entry, argv, path, file, kwargs, nrk, audio, sample_rate, n_fft, dn,
                    reduced_noise, events, out_file, exit_code >>
    /\ UNCHANGED patcher

\* lines 331-335: except Exception: the error event goes to log_progress only,
\* one ERROR| line goes to stderr, and NoiseReductionError is raised
ExceptHandler ==
    /\ pc = "except"
    /\ lines' = lines \o << LogProgressLine("error", 0), ErrorLine("failed") >>
    /\ exc' = [type |-> "NoiseReductionError", msg |-> "failed"]
    /\ pc' = "raised"
    /\ UNCHANGED << entry, argv, path, file, kwargs, nrk, audio, sample_rate, n_fft, dn,
                    reduced_noise, events, out_file, exit_code >>
    /\ UNCHANGED patcher

\* ------------------------------------------------------------ specification
Next ==
    \/ HostCallsRun
    \/ ArgparseError
    \/ NrMainCallsRun
    \/ NrMainReturns
    \/ NrMainExcept
    \/ ToolsNoCommand
    \/ ToolsTranscribe
    \/ ToolsCallsRun
    \/ ToolsReturns
    \/ ToolsExcept
    \/ RunValidatePath
    \/ RpLoading0
    \/ SfRead
    \/ RpLoading10
    \/ ToMono
    \/ RpLoading20
    \/ ValidateLength
    \/ RpLoading25
    \/ ShrinkFft
    \/ RpLoading30
    \/ RpProcessing30
    \/ RpProcessing40
    \/ DnEnter
    \/ DnNoiseProfile
    \/ DnAllocate
    \/ DnStftFrame
    \/ DnStftDone
    \/ DnOlaFrame
    \/ DnReturn
    \/ RpProcessing80
    \/ RpSaving85
    \/ Mkdir
    \/ RpSaving90
    \/ SfWrite
    \/ RpComplete100
    \/ PrintResult
    \/ ExceptHandler

Spec == Init /\ [][Next]_vars

\* ------------------------------------------------ patch_deepfilternet_io.py
\* The installed df/io.py is held as content.split('\n'), the list of lines
\* the patcher works on and joins back with '\n' (so an empty file is one
\* empty line, and a file that ends with a newline ends with an empty line);
\* each line is followed by what the patcher tests on it:
\*   def_save_audio  a line whose strip() starts with "def save_audio("
\*   ta_save         an indented line containing "ta.save(" or "torchaudio.save("
\*   blank           a line whose strip() is empty
\*   code            any other indented line
\*   top             any other line that starts at column 0
\*   fallback        the block of lines 91-105 the patcher inserts, which
\*                   holds "soundfile fallback" and "sf.write(outpath"
LineKinds == {"def_save_audio", "ta_save", "blank", "code", "top"}
IoFiles == UNION { [1..k -> LineKinds] : k \in 1..MaxFileLines }

\* line 45: "soundfile fallback" in content and "sf.write(outpath" in content
AlreadyPatched(content) ==
    \E i \in 1..Len(content) : content[i] = "fallback"
\* line 71: a non-empty line that starts neither with a space nor with a tab
EndsFunction(line) == line = "top"
\* line 80 (the inserted block has a ta.save( line of its own)
HasTaSave(line) == line \in {"ta_save", "fallback"}
\* lines 90-105: an empty line and the block
FallbackBlock == << "blank", "fallback" >>

\* main()'s and patch_save_audio()'s locals at the start of a run
PatcherLocals ==
    [content |-> << >>, i |-> 0, in_save_audio |-> FALSE, found_ta_save |-> FALSE,
     patched_lines |-> << >>, result |-> FALSE, raised |-> FALSE, out |-> << >>]

PatcherStart(installed, io, backup_exists) ==
    [pc |-> "main", installed |-> installed, io |-> io,
     backup_exists |-> backup_exists,
     backup |-> IF backup_exists THEN << "top" >> ELSE << >>,
     had_backup |-> backup_exists, copies |-> 0, runs |-> 1, rc |-> None,
     locals |-> PatcherLocals]

PatcherInit ==
    /\ entry = "patcher"
    /\ argv = << >>
    /\ path = "missing"
    /\ file = NoContent
    /\ pc = "patcher"
    /\ kwargs = << >>
    /\ nrk = NoOptions
    /\ audio = NoAudio
    /\ sample_rate = 0
    /\ n_fft = 0
    /\ dn = NoDn
    /\ reduced_noise = NoAudio
    /\ exc = NoExc
    /\ events = << >>
    /\ lines = << >>
    /\ out_file = NoFile
    /\ exit_code = None
    /\ patcher \in { PatcherStart(FALSE, << "blank" >>, FALSE) } \cup
                    { PatcherStart(TRUE, f, b) : f \in IoFiles, b \in BOOLEAN }

NoiseVars == << entry, argv, path, file, pc, kwargs, nrk, audio, sample_rate, n_fft, dn,
               reduced_noise, exc, events, lines, out_file, exit_code >>

PatcherPrint(tag) == Append(patcher.locals.out, tag)

\* lines 121-130: the banner, find_df_io_path(); return 0 when io.py is not found
PatcherMain ==
    /\ patcher.pc = "main"
    /\ IF ~patcher.installed
       THEN patcher' = [patcher EXCEPT !.locals.out = PatcherPrint("banner"),
                                       !.rc = 0, !.pc = "returned"]
       ELSE patcher' = [patcher EXCEPT !.locals.out = PatcherPrint("banner") \o << "found" >>,
                                       !.pc = "backup"]
    /\ UNCHANGED NoiseVars

\* lines 133-137: the backup is copied when there is none; shutil.copy2 is
\* outside the try block, so its failure leaves main() through the exception
PatcherBackup ==
    /\ patcher.pc = "backup"
    /\ IF patcher.backup_exists
       THEN patcher' = [patcher EXCEPT !.pc = "patch"]
       ELSE \/ patcher' = [patcher EXCEPT !.backup_exists = TRUE,
                                           !.backup = patcher.io,
                                           !.copies = patcher.copies + 1,
                                           !.locals.out = PatcherPrint("backup_created"),
                                           !.pc = "patch"]
            \/ patcher' = [patcher EXCEPT !.locals.raised = TRUE, !.rc = 1,
                                           !.pc = "crashed"]
    /\ UNCHANGED NoiseVars

\* lines 42-54: read the file; return True at once when both marker strings
\* are in it
PatchSaveAudioBegin ==
    /\ patcher.pc = "patch"
    /\ IF AlreadyPatched(patcher.io)
       THEN patcher' = [patcher EXCEPT !.locals.content = patcher.io,
                                       !.locals.out = PatcherPrint("already_patched"),
                                       !.locals.result = TRUE,
                                       !.pc = "report"]
       ELSE patcher' = [patcher EXCEPT !.locals.content = patcher.io,
                                       !.locals.i = 0,
                                       !.pc = "patch_loop"]
    /\ UNCHANGED NoiseVars

\* lines 57-112: one turn of the loop over the lines (i counts from 0)
PatchSaveAudioLine ==
    /\ patcher.pc = "patch_loop"
    /\ patcher.locals.i < Len(patcher.locals.content)
    /\ LET l == patcher.locals
           line == l.content[l.i + 1]
           keep == [l EXCEPT !.patched_lines = Append(l.patched_lines, line),
                             !.i = l.i + 1]
       IN  patcher' =
             [patcher EXCEPT !.locals =
                IF line = "def_save_audio"
                THEN [keep EXCEPT !.in_save_audio = TRUE]
                ELSE IF l.in_save_audio /\ EndsFunction(line)
                THEN [keep EXCEPT !.in_save_audio = FALSE, !.found_ta_save = FALSE]
                ELSE IF l.in_save_audio /\ HasTaSave(line)
                THEN [keep EXCEPT !.found_ta_save = TRUE]
                ELSE IF l.in_save_audio /\ l.found_ta_save /\ line = "blank"
                THEN [l EXCEPT !.patched_lines =
                                    l.patched_lines \o FallbackBlock \o << line >>,
                               !.found_ta_save = FALSE,
                               !.i = l.i + 1]
                ELSE keep]
    /\ UNCHANGED NoiseVars

\* line 117: return True
PatchResult(patched_lines) == TRUE

\* lines 114-117: the loop is over: write the lines back and return True; the
\* write may fail
PatchSaveAudioWrite ==
    /\ patcher.pc = "patch_loop"
    /\ patcher.locals.i >= Len(patcher.locals.content)
    /\ \/ patcher' = [patcher EXCEPT !.io = patcher.locals.patched_lines,
                                      !.locals.result =
                                          PatchResult(patcher.locals.patched_lines),
                                      !.pc = "report"]
       \/ patcher' = [patcher EXCEPT !.locals.raised = TRUE, !.pc = "except"]
    /\ UNCHANGED NoiseVars

\* lines 141-150: report what patch_save_audio returned
PatcherReport ==
    /\ patcher.pc = "report"
    /\ IF patcher.locals.result
       THEN patcher' = [patcher EXCEPT !.locals.out = PatcherPrint("success"),
                                       !.rc = 0, !.pc = "returned"]
       ELSE patcher' = [patcher EXCEPT !.locals.out = PatcherPrint("not_applied"),
                                       !.rc = 1, !.pc = "returned"]
    /\ UNCHANGED NoiseVars

\* lines 151-154
PatcherExcept ==
    /\ patcher.pc = "except"
    /\ patcher' = [patcher EXCEPT !.locals.out = PatcherPrint("error"),
                                  !.rc = 1, !.pc = "returned"]
    /\ UNCHANGED NoiseVars

\* the script is run once more on the files the last run left
PatcherRunAgain ==
    /\ patcher.pc \in {"returned", "crashed"}
    /\ patcher.runs < MaxPatcherRuns
    /\ patcher' = [patcher EXCEPT !.pc = "main", !.runs = patcher.runs + 1,
                                  !.rc = None, !.locals = PatcherLocals]
    /\ UNCHANGED NoiseVars

PatcherNext ==
    \/ PatcherMain
    \/ PatcherBackup
    \/ PatchSaveAudioBegin
    \/ PatchSaveAudioLine
    \/ PatchSaveAudioWrite
    \/ PatcherReport
    \/ PatcherExcept
    \/ PatcherRunAgain

PatcherSpec == PatcherInit /\ [][PatcherNext]_vars

\* ------------------------------------------------------------ observations
\* the invocation goes through noisereduction.run()
IsNoiseRun ==
    \/ entry = "run"
    \/ entry = "nr_main" /\ ~IsBadArgv(argv)
    \/ entry = "tools_main" /\ ~IsBadArgv(argv) /\ argv.command = "noise-reduce"

\* run() has returned or raised (and a main, if any, may have exited since)
RunReturned == IsNoiseRun /\ exc.type = "none" /\ pc \in {"returned", "exited"}
RunRaised == IsNoiseRun /\ pc \in {"raised", "exited"} /\ exc.type # "none"
\* the invocation is over: run() is back in the host, or the process has exited
Over == pc = "exited" \/ (entry = "run" /\ pc \in {"returned", "raised"})

ProgressLines == SelectSeq(lines, LAMBDA l : l.tag = "PROGRESS")
StageLines == SelectSeq(lines, LAMBDA l : l.tag = "PROGRESS" /\ l.stage # "error")
ErrorLines == SelectSeq(lines, LAMBDA l : l.tag = "ERROR")
ResultLines == SelectSeq(lines, LAMBDA l : l.tag = "RESULT_SAVED")
Last(s) == s[Len(s)]
NonDecreasing(s) == \A i \in 1..(Len(s) - 1) : s[i].progress <= s[i + 1].progress

\* the positions inside denoise_with_fft
InDenoiser == pc \in {"dn_noise", "dn_alloc", "dn_stft", "dn_ola"}
\* the positions of the two frame loops
InFrames == pc \in {"dn_stft", "dn_ola"}

\* the largest power of two not exceeding x (x >= 1), said without the code's
\* logarithm
LargestPow2Le(x) == CHOOSE p \in {Pow2(k) : k \in 0..12} : p <= x /\ x < 2 * p

\* ------------------------------------------------------------------- claims
\* C1 (length preservation): whenever denoise_with_fft has returned a signal
\* to run(), it has exactly as many samples as the decoded input had frames,
\* and a written output file holds that many samples at the input's sample rate.
C1_LengthPreserved ==
    /\ (IsNoiseRun /\ reduced_noise # NoAudio) =>
            /\ ArrLen(reduced_noise) = file.frames
            /\ file.frames >= MinSamples
    /\ out_file.written =>
            /\ out_file.frames = file.frames
            /\ out_file.samplerate = file.samplerate

\* a 100-sample input went through the frame loops (3 frames of 64 samples
\* reaching only sample 96) and its output was written
C1_Witness ==
    /\ pc = "returned" /\ out_file.written
    /\ file.frames = 100 /\ out_file.frames = 100
    /\ dn.num_frames = 3 /\ dn.n_fft = 64

\* the options run() uses when the caller passes none
DefaultOptions ==
    [n_fft |-> DefaultNFft, hop_length |-> None, noise_sample_duration |-> 1,
     alpha |-> Rat(2, 1), beta |-> Rat(1, 100)]
\* the positions of run() after its length check has passed
PastValidation ==
    \/ InDenoiser
    \/ pc \in {"adapt", "shrink", "rp_loading_30", "rp_processing_30", "rp_processing_40",
                "denoise", "rp_processing_80", "rp_saving_85", "mkdir", "rp_saving_90",
                "sf_write", "rp_complete_100", "print_result", "returned"}

\* C2 (short-input rejection): no signal of 99 or fewer samples gets past the
\* length check, the too-short error is raised for such signals only, and a
\* signal of exactly 100 samples run with the default options is not failed by
\* run() or by the denoiser (it can only fail through the caller's callback or
\* the file system).
C2_ShortRejectedHundredAccepted ==
    /\ (IsNoiseRun /\ PastValidation) => ArrLen(audio) >= 100
    /\ exc.msg = "too-short" => file.frames <= 99
    /\ (IsNoiseRun /\ path \in Readable /\ file.frames = 100 /\ nrk = DefaultOptions)
            => exc.msg \notin {"too-short", "OverflowError", "ValueError"}

\* C3 as claimed: whenever the requested n_fft exceeds the signal length, the
\* fft_size that frames the signal is the largest power of two not exceeding
\* the length (at least 64): 256 for n_fft = 2048 on 500 samples.
C3_EffectiveFftIsAdapted ==
    (InFrames /\ nrk.n_fft > ArrLen(audio)) =>
        /\ dn.n_fft = Max(MinFft, LargestPow2Le(ArrLen(audio)))
        /\ (nrk.n_fft = 2048 /\ ArrLen(audio) = 500) => dn.n_fft = 256

\* C3 (FFT-size adaptation), amended: when the requested n_fft exceeds the
\* signal length L, run() goes on with the largest power of two not exceeding
\* L (at least 64) and hands that to the denoiser: 256 for n_fft = 2048 on 500
\* samples.  The fft_size that frames the signal is what the denoiser's
\* noise-reference shrink leaves of it: max(64, largest power of two not
\* exceeding the noise reference length), never more than run()'s value, and
\* 64 for that 500-sample signal.
C3_FftAdaptation ==
    LET L == ArrLen(audio)
        adapted == nrk.n_fft > L
    IN  /\ (adapted /\ (InDenoiser \/ pc \in {"rp_loading_30", "rp_processing_30",
                                              "rp_processing_40", "denoise"})) =>
                /\ n_fft = Max(MinFft, LargestPow2Le(L))
                /\ n_fft <= L
                /\ (nrk.n_fft = 2048 /\ L = 500) => n_fft = 256
        /\ (adapted /\ InFrames) =>
                /\ dn.n_fft = Max(MinFft, LargestPow2Le(dn.noise_sample_length))
                /\ dn.n_fft <= n_fft
                /\ (nrk.n_fft = 2048 /\ L = 500) => dn.n_fft = 64

\* n_fft = 2048 on 500 samples: run() handed over 256 and the frames are cut at 64
C3_Witness ==
    /\ pc = "dn_stft" /\ dn.frame_idx = 1
    /\ nrk.n_fft = 2048 /\ ArrLen(audio) = 500
    /\ n_fft = 256 /\ dn.n_fft = 64

\* C4 as claimed: when a run is over (returned, rejected or failed), the
\* progress values it reported are non-decreasing and the last one is 100.
C4_AlwaysEndsAt100 ==
    (Over /\ IsNoiseRun /\ Len(ProgressLines) > 0) =>
        /\ NonDecreasing(ProgressLines)
        /\ Last(ProgressLines).progress = 100

\* C4 (monotonic progress), amended: in every run the progress values reported
\* with a stage other than 'error' are non-decreasing, on the side channel and
\* through the callback; a run that returns normally reported 100 last; a run
\* rejected as too short reported 20 last; a run that fails in run()'s handler
\* reports ('error', 0) last, below what it had reported before.
C4_MonotonicProgress ==
    /\ NonDecreasing(StageLines)
    /\ NonDecreasing(events)
    /\ RunReturned =>
            /\ Last(ProgressLines).stage = "complete"
            /\ Last(ProgressLines).progress = 100
    /\ (RunRaised /\ exc.msg = "too-short") => Last(ProgressLines).progress = 20
    /\ (RunRaised /\ exc.msg = "failed") =>
            /\ Last(ProgressLines).stage = "error"
            /\ Last(ProgressLines).progress = 0

\* a two-channel input with a too-large n_fft went through all eleven reports
C4_Witness ==
    /\ RunReturned /\ Len(ProgressLines) = 11
    /\ Last(ProgressLines).progress = 100

\* C5 (single error notification): every noise-reduction invocation that is
\* over and has failed wrote exactly one ERROR| line.
C5_SingleErrorLine ==
    (Over /\ RunRaised) => Len(ErrorLines) = 1

\* C6 (progress delivery): with a callback supplied, no PROGRESS| line is
\* written, and the error-stage event of a failed run reaches the callback.
C6_CallbackInsteadOfSideChannel ==
    HasCallback =>
        /\ Len(ProgressLines) = 0
        /\ (RunRaised /\ exc.msg = "failed") =>
                (Len(events) > 0 /\ Last(events).stage = "error")

\* C7 (result protocol): a run that returned normally printed RESULT_SAVED|
\* exactly once, as the last line, right after the ('complete', 100) progress
\* line and with the output file written; a run that raised printed none.
C7_ResultProtocol ==
    /\ RunReturned =>
            /\ Len(ResultLines) = 1
            /\ Last(lines).tag = "RESULT_SAVED"
            /\ lines[Len(lines) - 1].tag = "PROGRESS"
            /\ lines[Len(lines) - 1].stage = "complete"
            /\ lines[Len(lines) - 1].progress = 100
            /\ out_file.written
            /\ HasCallback => Last(events) = [stage |-> "complete", progress |-> 100]
    /\ (IsNoiseRun /\ ~RunReturned) => Len(ResultLines) = 0

\* a run returned after its result line
C7_Witness ==
    /\ RunReturned /\ entry = "run" /\ HasCallback
    /\ Last(lines).tag = "RESULT_SAVED" /\ out_file.written

Succeeded == Len(lines) > 0 /\ Last(lines).tag \in {"RESULT", "RESULT_SAVED"}

\* C9 (exit behaviour): a main exits with 0 when its command succeeded and
\* with a non-zero status otherwise: a rejected command line, no subcommand, a
\* missing input, a too-short signal, a failure while processing.
C9_ExitCode ==
    /\ pc = "exited" =>
            /\ exit_code # None
            /\ Succeeded <=> exit_code = 0
            /\ exc.type # "none" => exit_code # 0
    /\ pc # "exited" => exit_code = None

\* dividr-tools noise-reduce on a too-short signal has exited with 1
C9_Witness ==
    /\ pc = "exited" /\ entry = "tools_main" /\ exit_code = 1
    /\ exc.msg = "too-short"

\* the arithmetic mean of the channels of frame i of the decoded file
FrameMean(i) ==
    LET row == file.period[((i - 1) % Len(file.period)) + 1]
    IN  Rat(SumSeq(row), file.channels)

\* C10 (mono reduction): once a multi-channel file is past the reduction, the
\* audio is one-dimensional with one sample per frame, sample i is the mean of
\* the channels of frame i, and the denoiser is entered with that array and
\* never flattens; [[1,1],[-1,-1],[1,1],[-1,-1]] becomes [1,-1,1,-1].
C10_MonoReduction ==
    /\ (file.channels > 1 /\ pc \in {"rp_loading_20", "validate", "denoise", "dn_noise"}) =>
            /\ NDim(audio) = 1
            /\ ArrLen(audio) = file.frames
            /\ \A i \in 1..file.frames : REq(At(audio, i), FrameMean(i))
            /\ (file.period = PatternSquare(2) /\ file.frames = 4) =>
                    << At(audio, 1), At(audio, 2), At(audio, 3), At(audio, 4) >>
                        = << Rat(1, 1), Rat(-1, 1), Rat(1, 1), Rat(-1, 1) >>
    /\ (InDenoiser \/ pc = "denoise") => NDim(audio) = 1
    /\ ~dn.flattened

\* the claim's four-frame example is reduced (and then awaits the length check)
C10_Witness ==
    /\ pc = "validate"
    /\ file.channels = 2 /\ file.frames = 4 /\ file.period = PatternSquare(2)
    /\ audio.shape = << 4 >>

\* the window starts i = 0, hop, 2 hop, .. with i < R - fft, counted one by one
WindowStarts(R, fft, hop) == {i \in 0..Max(R, 0) : i % hop = 0 /\ i < R - fft}

FrameSpans ==
    { [start |-> f * dn.hop_length, end |-> f * dn.hop_length + dn.n_fft] :
        f \in 0..(dn.num_frames - 1) }

\* C13 (frame coverage): when the analysis loop has gone through its frames,
\* every sample index i of [0, L) lies inside at least one of them.
C13_FrameCoverage ==
    (pc = "dn_ola" /\ dn.frame_idx = 0) =>
        \A i \in 0..(ArrLen(audio) - 1) :
            \E fr \in FrameSpans : fr.start <= i /\ i < fr.end

\* C14 (noise window count): once the profile is estimated, a noise reference
\* of R >= fft_size samples was averaged over floor((R - fft_size) / hop) + 1
\* windows, and the single-window fallback was taken only when R < fft_size.
C14_NoiseWindowCount ==
    (pc \in {"dn_alloc", "dn_stft", "dn_ola"}) =>
        LET R == dn.noise_reference.stop - dn.noise_reference.start
        IN  /\ R >= dn.n_fft =>
                    dn.num_noise_windows = (R - dn.n_fft) \div dn.hop_length + 1
            /\ dn.fallback => R < dn.n_fft

\* C15 (recoverable conditions): for a readable signal of at least 100
\* samples with a positive sample rate, whatever n_fft and non-negative
\* noise_sample_duration are asked for, neither run() nor the denoiser raises:
\* a run can fail only through the caller's callback or the file system.
C15_RecoverableNeverFails ==
    (IsNoiseRun /\ path \in Readable /\ file.frames >= MinSamples /\ file.samplerate > 0) =>
        /\ exc.msg \notin {"too-short", "OverflowError"}
        /\ nrk.n_fft >= MinFft => exc.msg # "ValueError"

\* C16 (noise-driven shrink): whenever the denoiser finds the noise-reference
\* length R below the fft_size it was given, it goes on with fft_size =
\* max(64, largest power of two <= R), and that value sizes the frequency
\* bins (fft_size / 2 + 1) and every frame of the signal.
C16_NoiseDrivenShrink ==
    (dn.n_fft > 0 /\ dn.noise_sample_length < n_fft) =>
        LET R == dn.noise_sample_length
        IN  /\ exc.msg # "OverflowError"
            /\ dn.n_fft = Max(MinFft, IF R >= 1 THEN LargestPow2Le(R) ELSE 0)
            /\ InFrames => dn.num_freq_bins = dn.n_fft \div 2 + 1
            /\ (pc = "dn_stft" /\ dn.frame_idx > 0) =>
                    dn.end_sample - dn.start_sample = dn.n_fft

\* C17 (noise-reference cap): once the denoiser has cut its noise reference,
\* the reference is the leading R samples of the signal, R being the smaller
\* of floor(noise_sample_duration * sample_rate) and floor(L / 4): it starts
\* at sample 0, R is the largest integer with R <= duration * rate and
\* 4 R <= L, and so never more than a quarter of the signal.
C17_NoiseReferenceCap ==
    (dn.n_fft > 0) =>
        LET L == ArrLen(audio)
            R == dn.noise_sample_length
            product == nrk.noise_sample_duration * sample_rate
        IN  /\ dn.noise_reference = [start |-> 0, stop |-> R]
            /\ R >= 0
            /\ 10 * R <= product /\ 4 * R <= L
            /\ 10 * (R + 1) > product \/ 4 * (R + 1) > L
            /\ R = Min(product \div 10, L \div 4)

\* 0.1 s at 44100 Hz is 4410 samples, more than the 500 of the signal: the
\* reference is cut at a quarter, 125 samples, and the frames are processed
C17_Witness ==
    /\ pc = "dn_stft" /\ dn.frame_idx > 0
    /\ sample_rate = 44100 /\ ArrLen(audio) = 500 /\ nrk.noise_sample_duration = 1
    /\ dn.noise_reference = [start |-> 0, stop |-> 125]

\* C18 (default hop): inside the denoiser, when no hop_length was supplied the
\* hop is floor(effective fft_size / 4), the effective fft_size being the one
\* left by all adaptations, and it is at least 1; a supplied hop_length is
\* used unchanged; the frames start at multiples of that hop.
C18_DefaultHop ==
    InDenoiser =>
        /\ IF nrk.hop_length = None
           THEN dn.hop_length = dn.n_fft \div 4 /\ dn.hop_length >= 1
           ELSE dn.hop_length = nrk.hop_length
        /\ (pc = "dn_stft" /\ dn.frame_idx > 0) =>
                /\ dn.start_sample = (dn.frame_idx - 1) * dn.hop_length
                /\ dn.end_sample - dn.start_sample = dn.n_fft

\* the channels have been averaged: the conversion was reported and the audio
\* is one-dimensional although the file has several channels
MonoReduced ==
    /\ file.channels > 1 /\ NDim(audio) = 1
    /\ \E i \in 1..Len(lines) : lines[i].tag = "PROGRESS" /\ lines[i].progress = 10
\* nothing after the length check has happened
NothingProcessed ==
    /\ n_fft = nrk.n_fft /\ dn = NoDn /\ reduced_noise = NoAudio
    /\ ~out_file.written

\* C19 as claimed: validation comes before the mono reduction: the channels
\* are averaged only for a signal of at least 100 samples, and a signal
\* rejected as too short has gone through no reduction, no adaptation and no
\* denoising step, and has no output file.
C19_ValidationFirst ==
    /\ pc \in {"to_mono", "rp_loading_20"} => ArrLen(audio) >= MinSamples
    /\ exc.msg = "too-short" => (~MonoReduced /\ NothingProcessed)

\* C19 (step order), amended: the steps happen in the order reduce to mono ->
\* validate (at least 100 samples) -> adapt fft_size -> estimate the noise
\* profile -> process frames -> finalize.  The length check sees mono audio;
\* nothing is adapted or denoised before it has passed; the frames are
\* processed with the profile already estimated; the file is written from the
\* denoiser's result.  A signal that fails validation is rejected after the
\* mono reduction (a multi-channel file has been averaged by then) and before
\* FFT-size adaptation or any denoising step, and no output file is written.
C19_StepOrder ==
    /\ (pc = "validate" \/ (IsNoiseRun /\ PastValidation)) => NDim(audio) = 1
    /\ (IsNoiseRun /\ PastValidation) => ArrLen(audio) >= MinSamples
    /\ pc \in {"sf_read", "stereo", "to_mono", "rp_loading_20", "validate", "adapt"}
            => NothingProcessed
    /\ pc \in {"shrink", "rp_loading_30", "rp_processing_30", "rp_processing_40", "denoise"}
            => (dn = NoDn /\ reduced_noise = NoAudio /\ ~out_file.written)
    /\ InFrames => (dn.noise_spectrum_magnitude # << >> /\ reduced_noise = NoAudio)
    /\ pc = "dn_ola" => (dn.num_frames > 0 => dn.gain # << >>)
    /\ out_file.written => reduced_noise # NoAudio
    /\ exc.msg = "too-short" =>
            /\ file.channels > 1 => MonoReduced
            /\ NothingProcessed

\* a two-channel file of 99 frames, averaged and then rejected as too short
C19_Witness ==
    /\ exc.msg = "too-short" /\ pc = "raised"
    /\ file.channels = 2 /\ file.frames = 99
    /\ MonoReduced /\ audio.shape = << 99 >>

\* C20 (sample-rate validation): a decoded signal whose sample rate is zero or
\* negative never gets past the validation step: no adaptation, no noise
\* profile, no frame, and no failure raised from inside the denoiser.
C20_SampleRateValidated ==
    (IsNoiseRun /\ path \in Readable /\ file.samplerate <= 0) =>
        /\ ~PastValidation
        /\ dn = NoDn
        /\ exc.msg # "OverflowError"

\* C21 (overlap-add accumulator): in and after the synthesis loop, the two
\* accumulators have the input length and were filled with zeros; iteration k
\* of the loop took frame k - 1, so the frames are accumulated in ascending
\* index, each once; each frame was added to both accumulators over the same
\* range [start, min(start + fft_size, L)), start being frame * hop, a
\* non-empty range inside [0, L); window_sum received the window values
\* themselves; when the loop is over every frame has been added.
C21_OverlapAddAccumulator ==
    (pc = "dn_ola" \/ (dn.ola # << >>)) =>
        LET L == ArrLen(audio)
        IN  /\ dn.buffer_len = L /\ dn.window_sum_len = L
            /\ dn.fill = << RZero, RZero >>
            /\ Len(dn.ola) = IF pc = "dn_ola" THEN dn.frame_idx ELSE dn.num_frames
            /\ \A k \in 1..Len(dn.ola) :
                    LET o == dn.ola[k]
                        start == o.frame * dn.hop_length
                    IN  /\ o.frame = k - 1
                        /\ o.denoised_audio = [start |-> start,
                                               stop |-> Min(start + dn.n_fft, L)]
                        /\ o.window_sum = o.denoised_audio
                        /\ 0 <= o.denoised_audio.start
                        /\ o.denoised_audio.start < o.denoised_audio.stop
                        /\ o.denoised_audio.stop <= L
                        /\ o.energy = "window"

\* the synthesis loop has added all the frames of a signal, three or more
C21_Witness ==
    /\ pc = "dn_ola" /\ dn.num_frames >= 3 /\ dn.frame_idx = dn.num_frames
    /\ Len(dn.ola) = dn.num_frames

\* C22 (CLI option forwarding): in a noise-reduce run of dividr-tools, the
\* n_fft run() reads from its options (the size requested from the denoiser,
\* before adaptation) is the --n-fft value argparse holds, which is 2048 when
\* the option is absent.
C22_NFftForwarded ==
    (entry = "tools_main" /\ IsNoiseRun /\ nrk # NoOptions) =>
        nrk.n_fft = argv.n_fft

\* the place of a stage tag in the order loading < processing < saving < complete
StageRank(stage) ==
    CASE stage = "loading" -> 1
      [] stage = "processing" -> 2
      [] stage = "saving" -> 3
      [] stage = "complete" -> 4
      [] OTHER -> 0
StagesAscend(s) ==
    \A i \in 1..(Len(s) - 1) : StageRank(s[i].stage) <= StageRank(s[i + 1].stage)

\* the stage tags of the progress events never go backwards, and the output
\* file is written while the last stage reported is 'saving'
C23_StagesForward ==
    /\ StagesAscend(StageLines)
    /\ StagesAscend(events)
    /\ (IsNoiseRun /\ Len(StageLines) > 0 /\ StageRank(Last(StageLines).stage) < 3)
            => ~out_file.written
    /\ pc = "rp_complete_100" => (out_file.written /\ Last(StageLines).stage = "saving")

\* C23 (stage ordering): the stage tags of successive progress events never
\* go backwards in loading < processing < saving < complete, the output file
\* is written only during the saving stage, and no 'error' progress line and
\* no ERROR| line comes after a 'complete' progress line, whatever the
\* caller's callback does.
C23_StageOrdering ==
    /\ C23_StagesForward
    /\ \A i \in 1..Len(lines) : \A j \in (i + 1)..Len(lines) :
            (IsNoiseRun /\ lines[i].tag = "PROGRESS" /\ lines[i].stage = "complete") =>
                /\ lines[j].tag # "ERROR"
                /\ ~(lines[j].tag = "PROGRESS" /\ lines[j].stage = "error")

\* line i of the file is inside save_audio: a def save_audio( line comes
\* before it with no column-0 line in between
InsideSaveAudio(content, i) ==
    \E j \in 1..(i - 1) :
        /\ content[j] = "def_save_audio"
        /\ \A m \in (j + 1)..i : ~EndsFunction(content[m])
SaveAudioHasFallback(content) ==
    \E i \in 1..Len(content) : content[i] = "fallback" /\ InsideSaveAudio(content, i)
\* save_audio has a torchaudio save call with a blank line after it
CanInsert(content) ==
    \E t \in 1..Len(content) : \E b \in (t + 1)..Len(content) :
        /\ content[t] = "ta_save" /\ content[b] = "blank"
        /\ InsideSaveAudio(content, b)
        /\ \A m \in t..b : ~EndsFunction(content[m]) /\ content[m] # "def_save_audio"

\* the backup is copied at most once, never when one was there already; a
\* backup that was there keeps its content, and a backup the patcher made is
\* the file as it was before any patch
C24_BackupKept ==
    /\ patcher.copies <= 1
    /\ patcher.had_backup => (patcher.copies = 0 /\ patcher.backup = << "top" >>)
    /\ (patcher.backup_exists /\ ~patcher.had_backup) => ~AlreadyPatched(patcher.backup)

\* C24 (patcher outcome reporting): when main() has found io.py, reported
\* success and returned 0, save_audio in io.py contains the soundfile
\* fallback; when the file gave no place to insert it (no torchaudio save call
\* followed by a blank line inside save_audio) main() has reported the patch
\* as not applied and returned 1; the backup, once created, is not written
\* again.
C24_PatcherOutcome ==
    /\ (patcher.pc = "returned" /\ patcher.installed /\ patcher.rc = 0) =>
            SaveAudioHasFallback(patcher.io)
    /\ (patcher.pc = "returned" /\ patcher.installed /\ ~patcher.locals.raised
            /\ ~CanInsert(patcher.locals.content)
            /\ ~SaveAudioHasFallback(patcher.locals.content)) =>
            (patcher.rc = 1 /\ Last(patcher.locals.out) = "not_applied")
    /\ C24_BackupKept

====
